---- MODULE Spec2Model ----
(***************************************************************************)
(* edc-randomization: the allocation engine (Randomizer), the list         *)
(* verifier and the persisted stores they share, as a state machine.       *)
(*                                                                         *)
(* Every database query and every save() of Randomizer.randomize() is one  *)
(* atomic step of a call; the code opens no transaction and takes no row   *)
(* lock, so the steps of concurrent calls interleave freely (Spec).        *)
(* SpecSeq runs the same steps one call at a time, with the administrative *)
(* operations (verification, enrolment, edits of persisted rows) between   *)
(* calls.                                                                  *)
(***************************************************************************)
EXTENDS Integers, Sequences, FiniteSets, TLC

VARIABLES manifest, fileExists, slots, regs, pc, args, mobj, robj, err, messages,
          returned, registry, slotsOther, default_csv_fieldnames, fieldnames

vars == <<manifest, fileExists, slots, regs, pc, args, mobj, robj, err, messages,
          returned, registry, slotsOther, default_csv_fieldnames, fieldnames>>

(* ------------------------------ bounds -------------------------------- *)

\* number of Randomizer instances (callers) that may be in flight at once
MaxCalls == 2

\* number of rows of the manifest
MaxSid == 3

\* length of the class-level column list up to which verifiers are constructed
MaxColumns == 5

(* ----------------------------- vocabulary ----------------------------- *)

\* Python's None in a column or an attribute
None == "None"

Calls == 1..MaxCalls

\* the caller of a single-threaded run
Caller == CHOOSE p \in Calls : \A q \in Calls : p <= q

Subjects == {"s1", "s2", "s3"}

SiteNames == {"site_one", "site_two"}

Datetimes == {"t1", "t2"}

Users == {"erikvw"}

\* Randomizer.model: the label of the Slot table
ModelLabel == "edc_randomization.randomizationlist"

\* the label of the Slot table of a coexisting scheme: a Randomizer subclass
\* that sets its own name and model
OtherModelLabel == "tests.randomizationlist"

\* the models a Randomizer class may name
ModelLabels == {ModelLabel, OtherModelLabel}

\* the label of the Registration table
RegistrationLabel == "edc_registration.registeredsubject"

RANDOMIZED == "RANDOMIZED"

\* assignment code -> allocation
AssignmentMap == [active |-> 1, placebo |-> 2]

\* Randomizer.assignment_description_map: its keys, in the order of the dict
AssignmentDescriptionMap == <<"active", "placebo">>

\* the description maps a Randomizer subclass may carry: the keys of the
\* assignment map in either order, a key missing, a key too many, another key
DescriptionMaps ==
    {<<"active", "placebo">>, <<"placebo", "active">>, <<"active">>,
     <<"placebo", "active", "control">>, <<"active", "control">>}

\* an attribute that holds no object (self._model_obj = None)
NoObj == [none |-> TRUE]

\* no Registration row for an identifier
NoReg == [none |-> TRUE]

NoErr == [type |-> None, code |-> None]

NoArgs == [subject_identifier |-> None, allocated_datetime |-> None,
           site |-> None, user |-> None, assignment_description_map |-> <<>>,
           model |-> ModelLabel]

\* no verifier instance is alive
NoMessages == [raised |-> None, messages |-> <<>>]

\* RandomizationListVerifier.default_csv_fieldnames as the class declares it
DefaultCsvFieldnames == <<"sid", "assignment", "site_name">>

\* the extra_csv_fieldnames a scheme may pass to its verifier: an empty list,
\* or one more column
ExtraCsvFieldnames == {<<>>, <<"gender">>}

\* self.fieldnames is None, or no verifier has been constructed (None of a
\* list is written as the empty sequence: `fieldnames or ...` treats the two
\* alike)
NoFieldnames == <<>>

\* no class method of the Randomizer has just returned
NoReturn == [method |-> None, arg |-> None, value |-> None, raised |-> None]

(* ------------------------------ manifest ------------------------------ *)

\* one manifest row: sid, assignment, site_name
ManifestRow(i) ==
    [sid |-> i,
     assignment |-> IF ((i + 1) \div 2) % 2 = 1 THEN "active" ELSE "placebo",
     site_name |-> IF i % 2 = 1 THEN "site_one" ELSE "site_two"]

TestList == [i \in 1..MaxSid |-> ManifestRow(i)]

\* a manifest whose sids do not start at 1
ShortList == [i \in 1..(MaxSid - 1) |-> ManifestRow(i + 1)]

\* a manifest whose row i carries an assignment that is not in the map
BadList(i) == [TestList EXCEPT ![i].assignment = "100"]

Manifests == {TestList, ShortList} \cup {BadList(i) : i \in 1..MaxSid}

(* ------------------------------- stores ------------------------------- *)

\* a Slot as the importer creates it: every mutable field unset
NewSlot(row) ==
    [sid |-> row.sid, assignment |-> row.assignment, site_name |-> row.site_name,
     subject_identifier |-> None, allocated |-> FALSE, allocated_datetime |-> None,
     allocated_user |-> None, allocated_site |-> None]

\* a Registration as the enrolment workflow creates it
NewRegistration(s) ==
    [subject_identifier |-> s, sid |-> None, randomization_datetime |-> None,
     registration_status |-> None, randomization_list_model |-> None]

EmptyTable == [s \in {} |-> NoObj]

Min(S) == CHOOSE x \in S : \A y \in S : x <= y

\* (mutant) a populated table is replaced whether or not overwrite is given
ImportListReplacing(mf, tbl, overwrite) ==
    IF \E i \in 1..Len(mf) : mf[i].assignment \notin DOMAIN AssignmentMap
    THEN [slots |-> tbl, raised |-> "InvalidAssignment"]
    ELSE [slots |-> [s \in {mf[i].sid : i \in 1..Len(mf)} |->
                        NewSlot(mf[CHOOSE i \in 1..Len(mf) : mf[i].sid = s])],
          raised |-> None]

\* (mutant) the sid of a Slot is the line of its row
ImportListByLine(mf, tbl, overwrite) ==
    IF DOMAIN tbl # {} /\ ~overwrite
    THEN [slots |-> tbl, raised |-> "RandomizationListAlreadyImported"]
    ELSE IF \E i \in 1..Len(mf) : mf[i].assignment \notin DOMAIN AssignmentMap
    THEN [slots |-> tbl, raised |-> "InvalidAssignment"]
    ELSE [slots |-> [i \in 1..Len(mf) |-> NewSlot([mf[i] EXCEPT !.sid = i])],
          raised |-> None]

\* (mutant) overwrite keeps the rows that are bound to a subject
ImportListKeepingAllocated(mf, tbl, overwrite) ==
    IF DOMAIN tbl # {} /\ ~overwrite
    THEN [slots |-> tbl, raised |-> "RandomizationListAlreadyImported"]
    ELSE IF \E i \in 1..Len(mf) : mf[i].assignment \notin DOMAIN AssignmentMap
    THEN [slots |-> tbl, raised |-> "InvalidAssignment"]
    ELSE [slots |-> [s \in {mf[i].sid : i \in 1..Len(mf)} |->
                        IF s \in DOMAIN tbl /\ tbl[s].subject_identifier # None
                        THEN tbl[s]
                        ELSE NewSlot(mf[CHOOSE i \in 1..Len(mf) : mf[i].sid = s])],
          raised |-> None]

\* (mutant) rows are written one by one until a row is refused
ImportListRowByRow(mf, tbl, overwrite) ==
    IF DOMAIN tbl # {} /\ ~overwrite
    THEN [slots |-> tbl, raised |-> "RandomizationListAlreadyImported"]
    ELSE LET bad == {i \in 1..Len(mf) : mf[i].assignment \notin DOMAIN AssignmentMap}
             upto == IF bad = {} THEN Len(mf) ELSE Min(bad) - 1
         IN  [slots |-> [s \in {mf[i].sid : i \in 1..upto} |->
                            NewSlot(mf[CHOOSE i \in 1..upto : mf[i].sid = s])],
              raised |-> IF bad = {} THEN None ELSE "InvalidAssignment"]

\* RandomizationListImporter.import_list(overwrite): the table after the
\* import and the outcome
ImportList(mf, tbl, overwrite) ==
    IF DOMAIN tbl # {} /\ ~overwrite
    THEN [slots |-> tbl, raised |-> "RandomizationListAlreadyImported"]
    ELSE IF \E i \in 1..Len(mf) : mf[i].assignment \notin DOMAIN AssignmentMap
    THEN [slots |-> tbl, raised |-> "InvalidAssignment"]
    ELSE [slots |-> [s \in {mf[i].sid : i \in 1..Len(mf)} |->
                        NewSlot(mf[CHOOSE i \in 1..Len(mf) : mf[i].sid = s])],
          raised |-> None]

\* (mutant) the Slot table accepts any row
NoUniqueConstraint(tbl, row) == FALSE

\* the Slot table refuses a row that would give a subject a second Slot
UniqueViolation(tbl, row) ==
    /\ row.subject_identifier # None
    /\ \E s \in DOMAIN tbl :
          s # row.sid /\ tbl[s].subject_identifier = row.subject_identifier

\* Model.save(): every column of the instance is written to its row
SaveRow(tbl, row) ==
    [s \in DOMAIN tbl \cup {row.sid} |-> IF s = row.sid THEN row ELSE tbl[s]]

(* --------------------------- Randomizer calls ------------------------- *)

InFlight == {"registration_obj", "registration_get", "model_obj_get",
             "model_obj_filter", "model_obj_save", "model_obj_requery",
             "registration_save", "registration_requery"}

Over == {"idle", "done", "raised", "interrupted"}

Quiescent == \A p \in Calls : pc[p] \in Over

\* the call moves on: its position, the error it raised, and the instance's
\* _model_obj and _registration_obj
Move(p, label, e, m, r) ==
    /\ pc' = [pc EXCEPT ![p] = label]
    /\ err' = [err EXCEPT ![p] = e]
    /\ mobj' = [mobj EXCEPT ![p] = m]
    /\ robj' = [robj EXCEPT ![p] = r]

Goto(p, label) == Move(p, label, NoErr, mobj[p], robj[p])

\* an exception leaves the call
Raise(p, type, code) ==
    Move(p, "raised", [type |-> type, code |-> code], mobj[p], robj[p])

\* (mutant) the import is run with overwrite whatever the caller asks
RandomizerImportListOverwriting(tbl, overwrite) ==
    IF ~fileExists
    THEN [slots |-> tbl, raised |-> "RandomizationListFileNotFound", count |-> 0]
    ELSE LET r == ImportList(manifest, tbl, TRUE)
         IN  [slots |-> r.slots, raised |-> r.raised,
              count |-> IF r.raised = None THEN Len(manifest) ELSE 0]

\* Randomizer.import_list(overwrite=...): the table it leaves, what it
\* raises and, when it returns, how many rows it reports as imported
RandomizerImportList(tbl, overwrite) ==
    IF ~fileExists
    THEN [slots |-> tbl, raised |-> "RandomizationListFileNotFound", count |-> 0]
    ELSE LET r == ImportList(manifest, tbl, overwrite)
         IN  [slots |-> r.slots,
              raised |-> IF r.raised = "RandomizationListAlreadyImported"
                         THEN None ELSE r.raised,
              count |-> IF r.raised = None THEN Len(manifest) ELSE 0]

\* sorted(list(keys)): the keys in one fixed order
Sorted(S) ==
    CHOOSE s \in [1..Cardinality(S) -> S] : {s[i] : i \in 1..Cardinality(S)} = S

\* (mutant) keys may be missing from the description map
DescriptionKeysKnown(dmap) ==
    {dmap[i] : i \in 1..Len(dmap)} \subseteq DOMAIN AssignmentMap

\* Randomizer.validate_assignment_description_map(): the sorted keys of the
\* two maps are equal
ValidAssignmentDescriptionMap(dmap) ==
    Sorted(DOMAIN AssignmentMap) = Sorted({dmap[i] : i \in 1..Len(dmap)})

\* model_cls(): the Slot table of the class of call p
ModelCls(p) == IF args[p].model = OtherModelLabel THEN slotsOther ELSE slots

\* a write to the Slot table labelled model; the other table is not touched
ModelClsSave(model, tbl) ==
    IF model = OtherModelLabel
    THEN /\ slotsOther' = tbl
         /\ slots' = slots
    ELSE /\ slots' = tbl
         /\ slotsOther' = slotsOther

\* Randomizer(subject_identifier, report_datetime, site, user), of a class
\* whose assignment_description_map is dmap and whose Slot table is model
Construct(p, subject, dt, site, user, dmap, model) ==
    /\ pc[p] \in Over
    /\ args' = [args EXCEPT ![p] = [subject_identifier |-> subject,
                                    allocated_datetime |-> dt,
                                    site |-> site, user |-> user,
                                    assignment_description_map |-> dmap,
                                    model |-> model]]
    /\ IF ~ValidAssignmentDescriptionMap(dmap)
       THEN /\ UNCHANGED <<slots, slotsOther>>
            /\ Move(p, "raised", [type |-> "InvalidAssignmentDescriptionMap",
                                  code |-> None], NoObj, NoObj)
       ELSE LET r == RandomizerImportList(IF model = OtherModelLabel
                                          THEN slotsOther ELSE slots, FALSE)
            IN  /\ ModelClsSave(model, r.slots)
                /\ IF r.raised # None
                   THEN Move(p, "raised", [type |-> r.raised, code |-> None],
                             NoObj, NoObj)
                   ELSE Move(p, "registration_obj", NoErr, NoObj, NoObj)
    /\ messages' = NoMessages
    /\ UNCHANGED <<manifest, fileExists, regs>>
    /\ returned' = NoReturn
    /\ UNCHANGED <<registry, default_csv_fieldnames, fieldnames>>

\* (mutant) the user is not among the required attributes
RequiredPresentNoUser(a) ==
    /\ a.allocated_datetime # None
    /\ a.site # None
    /\ a.subject_identifier # None

\* all(required_instance_attrs.values())
RequiredPresent(a) ==
    /\ a.allocated_datetime # None
    /\ a.user # None
    /\ a.site # None
    /\ a.subject_identifier # None

\* (mutant) the required-attributes check comes before the Registration
\* is looked up
RegistrationObjRequiredFirst(p) ==
    /\ pc[p] = "registration_obj"
    /\ LET s == args[p].subject_identifier
       IN  IF ~RequiredPresent(args[p])
           THEN Raise(p, "RandomizationError", "insufficient_data")
           ELSE IF regs[s] # NoReg /\ regs[s].sid = None
           THEN Move(p, "model_obj_get", NoErr, mobj[p], regs[s])
           ELSE Goto(p, "registration_get")
    /\ UNCHANGED <<manifest, fileExists, slots, regs, args, messages>>
    /\ returned' = NoReturn
    /\ UNCHANGED <<registry, slotsOther, default_csv_fieldnames, fieldnames>>

\* randomize(): raise_if_already_randomized() -> registration_obj, first
\* query (sid__isnull=True), then the required-attributes check
RegistrationObj(p) ==
    /\ pc[p] = "registration_obj"
    /\ LET s == args[p].subject_identifier
       IN  IF regs[s] # NoReg /\ regs[s].sid = None
           THEN IF RequiredPresent(args[p])
                THEN Move(p, "model_obj_get", NoErr, mobj[p], regs[s])
                ELSE Raise(p, "RandomizationError", "insufficient_data")
           ELSE Goto(p, "registration_get")
    /\ UNCHANGED <<manifest, fileExists, slots, regs, args, messages>>
    /\ returned' = NoReturn
    /\ UNCHANGED <<registry, slotsOther, default_csv_fieldnames, fieldnames>>

\* (mutant) the second query takes any outcome for an allocated Registration
RegistrationGetAlready(p) ==
    /\ pc[p] = "registration_get"
    /\ Raise(p, "AlreadyRandomized", RegistrationLabel)
    /\ UNCHANGED <<manifest, fileExists, slots, regs, args, messages>>
    /\ returned' = NoReturn
    /\ UNCHANGED <<registry, slotsOther, default_csv_fieldnames, fieldnames>>

\* registration_obj, second query: which of the two errors
RegistrationGet(p) ==
    /\ pc[p] = "registration_get"
    /\ IF regs[args[p].subject_identifier] = NoReg
       THEN Raise(p, "RandomizationError", "does_not_exist")
       ELSE Raise(p, "AlreadyRandomized", RegistrationLabel)
    /\ UNCHANGED <<manifest, fileExists, slots, regs, args, messages>>
    /\ returned' = NoReturn
    /\ UNCHANGED <<registry, slotsOther, default_csv_fieldnames, fieldnames>>

\* the rows of a table bound to a subject
BoundTo(tbl, s) == {k \in DOMAIN tbl : tbl[k].subject_identifier = s}

\* (mutant) model_obj goes to the filter without looking for a bound Slot
ModelObjGetSkipped(p) ==
    /\ pc[p] = "model_obj_get"
    /\ Goto(p, "model_obj_filter")
    /\ UNCHANGED <<manifest, fileExists, slots, regs, args, messages>>
    /\ returned' = NoReturn
    /\ UNCHANGED <<registry, slotsOther, default_csv_fieldnames, fieldnames>>

\* model_obj: objects.get(subject_identifier=...)
ModelObjGet(p) ==
    /\ pc[p] = "model_obj_get"
    /\ LET n == Cardinality(BoundTo(ModelCls(p), args[p].subject_identifier))
       IN  IF n = 0 THEN Goto(p, "model_obj_filter")
           ELSE IF n = 1 THEN Raise(p, "AlreadyRandomized", args[p].model)
           ELSE Raise(p, "MultipleObjectsReturned", args[p].model)
    /\ UNCHANGED <<manifest, fileExists, slots, regs, args, messages>>
    /\ returned' = NoReturn
    /\ UNCHANGED <<registry, slotsOther, default_csv_fieldnames, fieldnames>>

\* (mutant) the filter leaves the site out
AvailableAnySite(tbl, site) ==
    {k \in DOMAIN tbl : tbl[k].subject_identifier = None}

\* filter(subject_identifier__isnull=True, site_name=...)
Available(tbl, site) ==
    {k \in DOMAIN tbl : tbl[k].subject_identifier = None /\ tbl[k].site_name = site}

\* (mutant) .order_by("-sid").first()
NextAvailableLast(tbl, site) ==
    IF Available(tbl, site) = {} THEN NoObj
    ELSE tbl[CHOOSE k \in Available(tbl, site) : \A j \in Available(tbl, site) : j <= k]

\* .order_by("sid").first()
NextAvailable(tbl, site) ==
    IF Available(tbl, site) = {} THEN NoObj ELSE tbl[Min(Available(tbl, site))]

\* model_obj: the next available SID of the site, or AllocationError
ModelObjFilter(p) ==
    /\ pc[p] = "model_obj_filter"
    /\ LET obj == NextAvailable(ModelCls(p), args[p].site)
       IN  IF obj = NoObj
           THEN Raise(p, "AllocationError", None)
           ELSE Move(p, "model_obj_save", NoErr, obj, robj[p])
    /\ UNCHANGED <<manifest, fileExists, slots, regs, args, messages>>
    /\ returned' = NoReturn
    /\ UNCHANGED <<registry, slotsOther, default_csv_fieldnames, fieldnames>>

\* (mutant) the allocating site is not recorded
AllocateWithoutSite(obj, a) ==
    [obj EXCEPT !.subject_identifier = a.subject_identifier,
                !.allocated_datetime = a.allocated_datetime,
                !.allocated_user = a.user,
                !.allocated = TRUE]

\* the instance after randomize() has set its allocation fields
Allocate(obj, a) ==
    [obj EXCEPT !.subject_identifier = a.subject_identifier,
                !.allocated_datetime = a.allocated_datetime,
                !.allocated_user = a.user,
                !.allocated_site = a.site,
                !.allocated = TRUE]

\* randomize(): set the fields on model_obj and save()
ModelObjSave(p) ==
    /\ pc[p] = "model_obj_save"
    /\ LET row == Allocate(mobj[p], args[p])
       IN  IF UniqueViolation(ModelCls(p), row)
           THEN /\ Raise(p, "IntegrityError", args[p].model)
                /\ UNCHANGED <<slots, slotsOther>>
           ELSE /\ ModelClsSave(args[p].model, SaveRow(ModelCls(p), row))
                /\ Move(p, "model_obj_requery", NoErr, row, robj[p])
    /\ UNCHANGED <<manifest, fileExists, regs, args, messages>>
    /\ returned' = NoReturn
    /\ UNCHANGED <<registry, default_csv_fieldnames, fieldnames>>

\* objects.get(allocated=True, allocated_datetime=..., subject_identifier=...)
Requery(tbl, a) ==
    {k \in DOMAIN tbl : /\ tbl[k].allocated
                        /\ tbl[k].allocated_datetime = a.allocated_datetime
                        /\ tbl[k].subject_identifier = a.subject_identifier}

\* randomize(): requery the Slot
ModelObjRequery(p) ==
    /\ pc[p] = "model_obj_requery"
    /\ LET found == Requery(ModelCls(p), args[p])
       IN  IF Cardinality(found) = 1
           THEN Move(p, "registration_save", NoErr,
                     ModelCls(p)[CHOOSE k \in found : TRUE], robj[p])
           ELSE Raise(p, IF found = {} THEN "DoesNotExist"
                         ELSE "MultipleObjectsReturned", args[p].model)
    /\ UNCHANGED <<manifest, fileExists, slots, regs, args, messages>>
    /\ returned' = NoReturn
    /\ UNCHANGED <<registry, slotsOther, default_csv_fieldnames, fieldnames>>

\* (mutant) the allocation code of the Slot is stored as the sid
RandomizedAllocationAsSid(reg, obj, label) ==
    [reg EXCEPT !.sid = ToString(AssignmentMap[obj.assignment]),
                !.randomization_datetime = obj.allocated_datetime,
                !.registration_status = RANDOMIZED,
                !.randomization_list_model = label]

\* the Registration instance after randomize() has set its fields
Randomized(reg, obj, label) ==
    [reg EXCEPT !.sid = ToString(obj.sid),
                !.randomization_datetime = obj.allocated_datetime,
                !.registration_status = RANDOMIZED,
                !.randomization_list_model = label]

\* randomize(): set the fields on registration_obj and save()
RegistrationSave(p) ==
    /\ pc[p] = "registration_save"
    /\ LET reg == Randomized(robj[p], mobj[p], args[p].model)
       IN  /\ regs' = [regs EXCEPT ![reg.subject_identifier] = reg]
           /\ Move(p, "registration_requery", NoErr, mobj[p], reg)
    /\ UNCHANGED <<manifest, fileExists, slots, args, messages>>
    /\ returned' = NoReturn
    /\ UNCHANGED <<registry, slotsOther, default_csv_fieldnames, fieldnames>>

\* randomize(): requery the Registration, and return
RegistrationRequery(p) ==
    /\ pc[p] = "registration_requery"
    /\ LET reg == regs[args[p].subject_identifier]
       IN  IF reg # NoReg /\ reg.sid = ToString(mobj[p].sid)
           THEN Move(p, "done", NoErr, mobj[p], reg)
           ELSE Raise(p, "DoesNotExist", RegistrationLabel)
    /\ UNCHANGED <<manifest, fileExists, slots, regs, args, messages>>
    /\ returned' = NoReturn
    /\ UNCHANGED <<registry, slotsOther, default_csv_fieldnames, fieldnames>>

\* the process running a call is stopped between two of its steps
Interrupt(p) ==
    /\ pc[p] \in InFlight
    /\ Move(p, "interrupted", NoErr, mobj[p], robj[p])
    /\ UNCHANGED <<manifest, fileExists, slots, regs, args, messages>>
    /\ returned' = NoReturn
    /\ UNCHANGED <<registry, slotsOther, default_csv_fieldnames, fieldnames>>

\* one step of a call in flight
Step(p) ==
    \/ RegistrationObj(p)
    \/ RegistrationGet(p)
    \/ ModelObjGet(p)
    \/ ModelObjFilter(p)
    \/ ModelObjSave(p)
    \/ ModelObjRequery(p)
    \/ RegistrationSave(p)
    \/ RegistrationRequery(p)
    \/ Interrupt(p)

\* report_datetime=instance.consent_datetime: one consent per subject
ConsentDatetime(s) == IF s = "s2" THEN "t2" ELSE "t1"

\* site_randomizers.randomize(...) from the consent of a subject: a new call
\* with every required attribute given
Randomize(p) ==
    \E subject \in Subjects, site \in SiteNames, user \in Users :
        Construct(p, subject, ConsentDatetime(subject), site, user,
                  AssignmentDescriptionMap, ModelLabel)

\* the same call through a coexisting scheme: a Randomizer subclass with its
\* own name and its own Slot table
RandomizeOther(p) ==
    \E subject \in Subjects, site \in SiteNames, user \in Users :
        Construct(p, subject, ConsentDatetime(subject), site, user,
                  AssignmentDescriptionMap, OtherModelLabel)

\* Randomizer(...).randomize() with at most one required attribute left out
Start(p) ==
    \E subject \in Subjects, dt \in Datetimes \cup {None},
       site \in SiteNames \cup {None}, user \in Users \cup {None} :
        /\ dt \in {ConsentDatetime(subject), None}
        /\ Cardinality({x \in {dt, site, user} : x = None}) <= 1
        /\ Construct(p, subject, dt, site, user, AssignmentDescriptionMap, ModelLabel)

\* Randomizer(...).randomize() of a Randomizer subclass with its own
\* assignment_description_map
Activate(p) ==
    \E subject \in Subjects, site \in SiteNames, user \in Users,
       dmap \in DescriptionMaps :
        Construct(p, subject, ConsentDatetime(subject), site, user, dmap, ModelLabel)

(* --------------------------- get_assignment --------------------------- *)

\* (mutant) with no Slot bound to the subject, the assignment of the first
\* Slot of the table is returned
AssignmentOfFirstRow(tbl, s) ==
    LET b == BoundTo(tbl, s)
    IN  IF b = {} /\ DOMAIN tbl # {}
        THEN [value |-> tbl[Min(DOMAIN tbl)].assignment, raised |-> None]
        ELSE IF b = {} THEN [value |-> None, raised |-> None]
        ELSE [value |-> tbl[Min(b)].assignment, raised |-> None]

\* Randomizer.get_assignment(subject_identifier): objects.get, None when
\* it matches no row
Assignment(tbl, s) ==
    LET b == BoundTo(tbl, s)
    IN  IF b = {} THEN [value |-> None, raised |-> None]
        ELSE IF Cardinality(b) = 1
        THEN [value |-> tbl[CHOOSE k \in b : TRUE].assignment, raised |-> None]
        ELSE [value |-> None, raised |-> "MultipleObjectsReturned"]

\* a caller asks for the assignment of a subject
GetAssignment(s) ==
    /\ returned' = [method |-> "get_assignment", arg |-> s,
                    value |-> Assignment(slots, s).value,
                    raised |-> Assignment(slots, s).raised]
    /\ UNCHANGED <<manifest, fileExists, slots, regs, pc, args, mobj, robj, err,
                   messages, registry, slotsOther,
                   default_csv_fieldnames, fieldnames>>

(* ------------------------------ registry ------------------------------ *)

\* the Randomizer classes of a deployment
RandomizerClasses ==
    {"Randomizer", "MyRandomizer", "TrialRandomizer", "SubStudyRandomizer"}

\* a class that does not derive from Randomizer
NotARandomizer == "NotARandomizer"

\* cls.name: a subclass that does not set it keeps "default"
ClassName(cls) ==
    IF cls \in {"TrialRandomizer", "SubStudyRandomizer"} THEN "trial" ELSE "default"

\* the names a randomizer is looked up by
SchemeNames == {"default", "trial", "other"}

\* the registry before any class is registered
NoRegistry == [n \in SchemeNames |-> None]

\* (mutant) a class registered under a taken name replaces the first
SiteRandomizersRegisterReplacing(reg, cls) ==
    [registry |-> [reg EXCEPT ![ClassName(cls)] = cls], raised |-> None]

\* site_randomizers.register(cls): a name is registered once
SiteRandomizersRegister(reg, cls) ==
    IF reg[ClassName(cls)] # None
    THEN [registry |-> reg, raised |-> "ConfigurationError"]
    ELSE [registry |-> [reg EXCEPT ![ClassName(cls)] = cls], raised |-> None]

\* site_randomizers.get(name): the class, or None when the name is not
\* registered
SiteRandomizersGet(reg, name) == reg[name]

\* randomizers.py: the default Randomizer is registered when the module loads
DefaultRegistry == SiteRandomizersRegister(NoRegistry, "Randomizer").registry

\* @register() on a class
RegisterRandomizer(cls) ==
    /\ Quiescent
    /\ IF cls \notin RandomizerClasses
       THEN /\ registry' = registry
            /\ returned' = [method |-> "register", arg |-> cls, value |-> None,
                            raised |-> "RegisterRandomizerError"]
       ELSE LET r == SiteRandomizersRegister(registry, cls)
            IN  /\ registry' = r.registry
                /\ returned' = [method |-> "register", arg |-> cls, value |-> None,
                                raised |-> r.raised]
    /\ messages' = NoMessages
    /\ UNCHANGED <<manifest, fileExists, slots, regs, pc, args, mobj, robj, err,
                   slotsOther, default_csv_fieldnames, fieldnames>>

\* a caller looks a randomizer up by name
GetRandomizer(name) ==
    /\ Quiescent
    /\ returned' = [method |-> "get", arg |-> name,
                    value |-> SiteRandomizersGet(registry, name), raised |-> None]
    /\ messages' = NoMessages
    /\ UNCHANGED <<manifest, fileExists, slots, regs, pc, args, mobj, robj, err,
                   registry, slotsOther,
                   default_csv_fieldnames, fieldnames>>

(* ------------------------------ verifier ------------------------------ *)

NoMessage == [kind |-> None, line |-> None, sid |-> None,
              expected |-> None, got |-> None]

Message(kind, line, sid, expected, got) ==
    [kind |-> kind, line |-> line, sid |-> sid, expected |-> expected, got |-> got]

\* objects.all().order_by("sid"): the persisted sids in ascending order
RECURSIVE OrderBySid(_)
OrderBySid(S) ==
    IF S = {} THEN <<>> ELSE <<Min(S)>> \o OrderBySid(S \ {Min(S)})

\* (mutant) a mismatch message gives the value of the manifest twice
InspectRowOneValue(index, row, tbl) ==
    LET sids == OrderBySid(DOMAIN tbl)
    IN  IF index + 1 > Len(sids)
        THEN [raised |-> "IndexError", message |-> NoMessage]
        ELSE LET obj1 == tbl[sids[index + 1]]
             IN  IF row.sid \notin DOMAIN tbl
                 THEN [raised |-> None,
                       message |-> Message("invalid_sid", None, ToString(row.sid),
                                           None, None)]
                 ELSE LET obj2 == tbl[row.sid]
                      IN  IF obj1.sid # obj2.sid
                          THEN [raised |-> None,
                                message |-> Message("invalid_sids", ToString(index + 1),
                                                    None, ToString(row.sid),
                                                    ToString(obj1.sid))]
                          ELSE IF row.assignment \notin DOMAIN AssignmentMap
                          THEN [raised |-> "InvalidAssignment", message |-> NoMessage]
                          ELSE IF obj2.assignment # row.assignment
                          THEN [raised |-> None,
                                message |-> Message("assignment", None, ToString(obj2.sid),
                                                    row.assignment, row.assignment)]
                          ELSE IF obj2.site_name # row.site_name
                          THEN [raised |-> None,
                                message |-> Message("site_name", None, ToString(obj2.sid),
                                                    row.site_name, row.site_name)]
                          ELSE [raised |-> None, message |-> NoMessage]

\* RandomizationListVerifier.inspect_row(index, row), index zero-based
InspectRow(index, row, tbl) ==
    LET sids == OrderBySid(DOMAIN tbl)
    IN  IF index + 1 > Len(sids)
        THEN [raised |-> "IndexError", message |-> NoMessage]
        ELSE LET obj1 == tbl[sids[index + 1]]
             IN  IF row.sid \notin DOMAIN tbl
                 THEN [raised |-> None,
                       message |-> Message("invalid_sid", None, ToString(row.sid),
                                           None, None)]
                 ELSE LET obj2 == tbl[row.sid]
                      IN  IF obj1.sid # obj2.sid
                          THEN [raised |-> None,
                                message |-> Message("invalid_sids", ToString(index + 1),
                                                    None, ToString(row.sid),
                                                    ToString(obj1.sid))]
                          ELSE IF row.assignment \notin DOMAIN AssignmentMap
                          THEN [raised |-> "InvalidAssignment", message |-> NoMessage]
                          ELSE IF obj2.assignment # row.assignment
                          THEN [raised |-> None,
                                message |-> Message("assignment", None, ToString(obj2.sid),
                                                    row.assignment, obj2.assignment)]
                          ELSE IF obj2.site_name # row.site_name
                          THEN [raised |-> None,
                                message |-> Message("site_name", None, ToString(obj2.sid),
                                                    row.site_name, obj2.site_name)]
                          ELSE [raised |-> None, message |-> NoMessage]

\* RandomizationListVerifier.verify(): the loop over the rows from line i on
RECURSIVE VerifyRows(_, _, _)
VerifyRows(i, mf, tbl) ==
    IF i > Len(mf)
    THEN [raised |-> None, message |-> NoMessage]
    ELSE LET r == InspectRow(i - 1, mf[i], tbl)
         IN  IF r.raised # None \/ r.message # NoMessage
             THEN r
             ELSE VerifyRows(i + 1, mf, tbl)

\* (mutant) the count of the rows is not compared
VerifyWithoutCount(mf, tbl) ==
    LET r == VerifyRows(1, mf, tbl)
    IN  IF r.raised # None \/ r.message # NoMessage THEN r
        ELSE IF Len(mf) = 0
        THEN [raised |-> "UnboundLocalError", message |-> NoMessage]
        ELSE r

\* RandomizationListVerifier.verify(): the rows, then the count
Verify(mf, tbl) ==
    LET r == VerifyRows(1, mf, tbl)
        count == Cardinality(DOMAIN tbl)
    IN  IF r.raised # None \/ r.message # NoMessage THEN r
        ELSE IF Len(mf) = 0
        THEN [raised |-> "UnboundLocalError", message |-> NoMessage]
        ELSE IF count # Len(mf)
        THEN [raised |-> None,
              message |-> Message("count", None, None, ToString(Len(mf)),
                                  ToString(count))]
        ELSE r

\* (mutant) the file is looked for before the rows are counted
DiscrepanciesFileFirst(mf, exists, tbl) ==
    IF ~exists
    THEN [raised |-> None,
          messages |-> <<Message("file_missing", None, None, None, None)>>]
    ELSE IF Cardinality(DOMAIN tbl) = 0
    THEN [raised |-> None,
          messages |-> <<Message("not_loaded", None, None, None, None)>>]
    ELSE LET r == Verify(mf, tbl)
         IN  [raised |-> r.raised,
              messages |-> IF r.message # NoMessage THEN <<r.message>> ELSE <<>>]

\* RandomizationListVerifier.__init__: the count, the file, verify()
Discrepancies(mf, exists, tbl) ==
    IF Cardinality(DOMAIN tbl) = 0
    THEN [raised |-> None,
          messages |-> <<Message("not_loaded", None, None, None, None)>>]
    ELSE IF ~exists
    THEN [raised |-> None,
          messages |-> <<Message("file_missing", None, None, None, None)>>]
    ELSE LET r == Verify(mf, tbl)
         IN  [raised |-> r.raised,
              messages |-> IF r.message # NoMessage THEN <<r.message>> ELSE <<>>]

\* (mutant) the maintenance commands are not exempted
VerifierNoExemption(randomizer_cls, extraGiven, maintenance, mf, exists, tbl) ==
    IF ~extraGiven
    THEN [raised |-> "TypeError", messages |-> <<>>]
    ELSE IF randomizer_cls = None
    THEN [raised |-> "RandomizationListError", messages |-> <<>>]
    ELSE LET r == Discrepancies(mf, exists, tbl)
         IN  IF r.raised = None /\ r.messages # <<>>
             THEN [raised |-> "RandomizationListError", messages |-> r.messages]
             ELSE r

\* RandomizationListVerifier(...): randomizer_cls is what the registry
\* holds under the name of the randomizer; extra_csv_fieldnames given or left
\* None, under a maintenance command (migrate, makemigrations,
\* import_randomization_list) or not
Verifier(randomizer_cls, extraGiven, maintenance, mf, exists, tbl) ==
    IF ~extraGiven
    THEN [raised |-> "TypeError", messages |-> <<>>]
    ELSE IF randomizer_cls = None
    THEN [raised |-> "RandomizationListError", messages |-> <<>>]
    ELSE LET r == Discrepancies(mf, exists, tbl)
         IN  IF r.raised = None /\ r.messages # <<>> /\ ~maintenance
             THEN [raised |-> "RandomizationListError", messages |-> r.messages]
             ELSE r

\* list.extend(extra): the list after the call, which returns None
Extend(list, extra) == list \o extra

\* (mutant) the verifier re-imports the manifest over the table it verifies
VerifyListReimporting(extraGiven, extra_csv_fieldnames, maintenance) ==
    /\ Quiescent
    /\ extraGiven => Len(Extend(default_csv_fieldnames, extra_csv_fieldnames))
                         <= MaxColumns
    /\ LET r == Verifier(SiteRandomizersGet(registry, ClassName("Randomizer")),
                         extraGiven, maintenance, manifest, fileExists, slots)
       IN  /\ messages' = r
           /\ returned' = [method |-> "verify_list", arg |-> maintenance,
                           value |-> None, raised |-> r.raised]
    /\ default_csv_fieldnames' = IF extraGiven
                                 THEN Extend(default_csv_fieldnames, extra_csv_fieldnames)
                                 ELSE default_csv_fieldnames
    /\ fieldnames' = NoFieldnames
    /\ slots' = IF fileExists THEN ImportList(manifest, slots, TRUE).slots ELSE slots
    /\ UNCHANGED <<manifest, fileExists, regs, pc, args, mobj, robj, err,
                   registry, slotsOther>>

\* Randomizer.verify_list(**kwargs): a verifier is constructed, with
\* extra_csv_fieldnames given or left None and no fieldnames, under a
\* maintenance command or not; it keeps its messages. Line 47 extends the
\* class-level list in place and binds the instance attribute to the None
\* that extend returns, so self.fieldnames is None.
VerifyListExtra(extraGiven, extra_csv_fieldnames, maintenance) ==
    /\ Quiescent
    /\ extraGiven => Len(Extend(default_csv_fieldnames, extra_csv_fieldnames))
                         <= MaxColumns
    /\ LET r == Verifier(SiteRandomizersGet(registry, ClassName("Randomizer")),
                         extraGiven, maintenance, manifest, fileExists, slots)
       IN  /\ messages' = r
           /\ returned' = [method |-> "verify_list", arg |-> maintenance,
                           value |-> None, raised |-> r.raised]
    /\ default_csv_fieldnames' = IF extraGiven
                                 THEN Extend(default_csv_fieldnames, extra_csv_fieldnames)
                                 ELSE default_csv_fieldnames
    /\ fieldnames' = NoFieldnames
    /\ UNCHANGED <<manifest, fileExists, slots, regs, pc, args, mobj, robj, err,
                   registry, slotsOther>>

\* Randomizer.verify_list() of a scheme whose extra columns, when it gives
\* any, are an empty list
VerifyList(extraGiven, maintenance) == VerifyListExtra(extraGiven, <<>>, maintenance)

(* ---------------------------- environment ----------------------------- *)

\* the enrolment workflow creates the Registration of a subject
Register(s) ==
    /\ Quiescent
    /\ regs[s] = NoReg
    /\ regs' = [regs EXCEPT ![s] = NewRegistration(s)]
    /\ messages' = NoMessages
    /\ UNCHANGED <<manifest, fileExists, slots, pc, args, mobj, robj, err>>
    /\ returned' = NoReturn
    /\ UNCHANGED <<registry, slotsOther, default_csv_fieldnames, fieldnames>>

\* every persisted row carries the assignment and site of its manifest row
AsImported(mf, tbl) ==
    \A i \in 1..Len(mf) :
        mf[i].sid \in DOMAIN tbl =>
            /\ tbl[mf[i].sid].assignment = mf[i].assignment
            /\ tbl[mf[i].sid].site_name = mf[i].site_name

\* an operator edits the assignment of one persisted row
EditAssignment(k, a) ==
    /\ Quiescent
    /\ AsImported(manifest, slots)
    /\ k \in DOMAIN slots
    /\ slots[k].assignment # a
    /\ slots' = [slots EXCEPT ![k].assignment = a]
    /\ messages' = NoMessages
    /\ UNCHANGED <<manifest, fileExists, regs, pc, args, mobj, robj, err>>
    /\ returned' = NoReturn
    /\ UNCHANGED <<registry, slotsOther, default_csv_fieldnames, fieldnames>>

\* an operator edits the site of one persisted row
EditSiteName(k, site) ==
    /\ Quiescent
    /\ AsImported(manifest, slots)
    /\ k \in DOMAIN slots
    /\ slots[k].site_name # site
    /\ slots' = [slots EXCEPT ![k].site_name = site]
    /\ messages' = NoMessages
    /\ UNCHANGED <<manifest, fileExists, regs, pc, args, mobj, robj, err>>
    /\ returned' = NoReturn
    /\ UNCHANGED <<registry, slotsOther, default_csv_fieldnames, fieldnames>>

\* the manifest file is removed from the randomization list folder
RemoveFile ==
    /\ Quiescent
    /\ fileExists
    /\ fileExists' = FALSE
    /\ messages' = NoMessages
    /\ UNCHANGED <<manifest, slots, regs, pc, args, mobj, robj, err>>
    /\ returned' = NoReturn
    /\ UNCHANGED <<registry, slotsOther, default_csv_fieldnames, fieldnames>>

\* the sid of a Registration is set back to null and saved
ResetSid(s) ==
    /\ Quiescent
    /\ regs[s] # NoReg
    /\ regs[s].sid # None
    /\ regs' = [regs EXCEPT ![s].sid = None]
    /\ messages' = NoMessages
    /\ UNCHANGED <<manifest, fileExists, slots, pc, args, mobj, robj, err>>
    /\ returned' = NoReturn
    /\ UNCHANGED <<registry, slotsOther, default_csv_fieldnames, fieldnames>>

\* RandomizationList.objects.update(subject_identifier=None)
ClearSubjects ==
    /\ Quiescent
    /\ \E k \in DOMAIN slots : slots[k].subject_identifier # None
    /\ slots' = [k \in DOMAIN slots |-> [slots[k] EXCEPT !.subject_identifier = None]]
    /\ messages' = NoMessages
    /\ UNCHANGED <<manifest, fileExists, regs, pc, args, mobj, robj, err>>
    /\ returned' = NoReturn
    /\ UNCHANGED <<registry, slotsOther, default_csv_fieldnames, fieldnames>>

\* a manifest file is written to the randomization list folder
WriteFile(mf) ==
    /\ Quiescent
    /\ manifest # mf \/ ~fileExists
    /\ manifest' = mf
    /\ fileExists' = TRUE
    /\ messages' = NoMessages
    /\ UNCHANGED <<slots, regs, pc, args, mobj, robj, err>>
    /\ returned' = NoReturn
    /\ UNCHANGED <<registry, slotsOther, default_csv_fieldnames, fieldnames>>

\* RandomizationListImporter(overwrite=...), on the manifest file
Importer(overwrite) ==
    /\ Quiescent
    /\ fileExists
    /\ LET r == ImportList(manifest, slots, overwrite)
       IN  /\ slots' = r.slots
           /\ returned' = [method |-> "RandomizationListImporter", arg |-> overwrite,
                           value |-> IF r.raised = None THEN Len(manifest) ELSE None,
                           raised |-> r.raised]
    /\ messages' = NoMessages
    /\ UNCHANGED <<manifest, fileExists, regs, pc, args, mobj, robj, err, registry, slotsOther,
                   default_csv_fieldnames, fieldnames>>

\* Randomizer.import_list(overwrite=...)
RandomizerImport(overwrite) ==
    /\ Quiescent
    /\ LET r == RandomizerImportList(slots, overwrite)
       IN  /\ slots' = r.slots
           /\ returned' = [method |-> "import_list", arg |-> overwrite,
                           value |-> IF r.raised = None THEN r.count ELSE None,
                           raised |-> r.raised]
    /\ messages' = NoMessages
    /\ UNCHANGED <<manifest, fileExists, regs, pc, args, mobj, robj, err, registry, slotsOther,
                   default_csv_fieldnames, fieldnames>>

(* --------------------------- specifications --------------------------- *)

\* the list is imported and two subjects are enrolled
Init ==
    /\ manifest = TestList
    /\ fileExists = TRUE
    /\ slots = ImportList(TestList, EmptyTable, FALSE).slots
    /\ regs = [s \in Subjects |-> IF s = "s3" THEN NoReg ELSE NewRegistration(s)]
    /\ pc = [p \in Calls |-> "idle"]
    /\ args = [p \in Calls |-> NoArgs]
    /\ mobj = [p \in Calls |-> NoObj]
    /\ robj = [p \in Calls |-> NoObj]
    /\ err = [p \in Calls |-> NoErr]
    /\ messages = NoMessages
    /\ returned = NoReturn
    /\ registry = DefaultRegistry
    /\ slotsOther = EmptyTable
    /\ default_csv_fieldnames = DefaultCsvFieldnames
    /\ fieldnames = NoFieldnames

\* concurrent callers: the steps of their calls interleave
Next == \E p \in Calls : Randomize(p) \/ Step(p)

Spec == Init /\ [][Next]_vars

\* nothing is imported and nobody is enrolled
InitSeq ==
    /\ manifest = TestList
    /\ fileExists = TRUE
    /\ slots = EmptyTable
    /\ regs = [s \in Subjects |-> NoReg]
    /\ pc = [p \in Calls |-> "idle"]
    /\ args = [p \in Calls |-> NoArgs]
    /\ mobj = [p \in Calls |-> NoObj]
    /\ robj = [p \in Calls |-> NoObj]
    /\ err = [p \in Calls |-> NoErr]
    /\ messages = NoMessages
    /\ returned = NoReturn
    /\ registry = DefaultRegistry
    /\ slotsOther = EmptyTable
    /\ default_csv_fieldnames = DefaultCsvFieldnames
    /\ fieldnames = NoFieldnames

\* one operation at a time: a call starts, and the administrative
\* operations run, only when no call is in flight
NextSeq ==
    \/ Quiescent /\ Start(Caller)
    \/ Step(Caller)
    \/ \E extraGiven \in BOOLEAN, maintenance \in BOOLEAN :
          VerifyList(extraGiven, maintenance)
    \/ \E s \in Subjects : Register(s)

SpecSeq == InitSeq /\ [][NextSeq]_vars

\* one operation at a time on an imported list whose persisted rows and
\* manifest file operators may touch between calls
NextOps ==
    \/ Quiescent /\ Randomize(Caller)
    \/ Step(Caller)
    \/ \E extraGiven \in BOOLEAN, maintenance \in BOOLEAN :
          VerifyList(extraGiven, maintenance)
    \/ \E k \in 1..MaxSid, a \in DOMAIN AssignmentMap : EditAssignment(k, a)
    \/ \E k \in 1..MaxSid, site \in SiteNames : EditSiteName(k, site)
    \/ RemoveFile

SpecOps == Init /\ [][NextOps]_vars

\* one operation at a time on an imported list, with the two stores put
\* out of sync between calls
NextErr ==
    \/ Quiescent /\ Start(Caller)
    \/ Step(Caller)
    \/ \E s \in Subjects : ResetSid(s)
    \/ ClearSubjects

SpecErr == Init /\ [][NextErr]_vars

\* concurrent callers, and callers that ask for assignments at any moment
NextGet ==
    \/ Next
    \/ \E s \in Subjects : GetAssignment(s)

SpecGet == Init /\ [][NextGet]_vars

\* some manifest file is in place, nothing is imported, two subjects are
\* enrolled
InitImport ==
    /\ manifest \in Manifests
    /\ fileExists = TRUE
    /\ slots = EmptyTable
    /\ regs = [s \in Subjects |-> IF s = "s3" THEN NoReg ELSE NewRegistration(s)]
    /\ pc = [p \in Calls |-> "idle"]
    /\ args = [p \in Calls |-> NoArgs]
    /\ mobj = [p \in Calls |-> NoObj]
    /\ robj = [p \in Calls |-> NoObj]
    /\ err = [p \in Calls |-> NoErr]
    /\ messages = NoMessages
    /\ returned = NoReturn
    /\ registry = DefaultRegistry
    /\ slotsOther = EmptyTable
    /\ default_csv_fieldnames = DefaultCsvFieldnames
    /\ fieldnames = NoFieldnames

\* one operation at a time: imports with and without overwrite, manifest
\* files written and removed, and calls in between
NextImport ==
    \/ Quiescent /\ Randomize(Caller)
    \/ Step(Caller)
    \/ \E overwrite \in BOOLEAN : Importer(overwrite)
    \/ \E overwrite \in BOOLEAN : RandomizerImport(overwrite)
    \/ \E mf \in Manifests : WriteFile(mf)
    \/ RemoveFile

SpecImport == InitImport /\ [][NextImport]_vars

\* the file orders of the manifests the verifier is given: up to MaxSid
\* distinct sids, in any order
SidOrders ==
    {o \in UNION {[1..n -> 1..MaxSid] : n \in 0..MaxSid} :
        \A i, j \in DOMAIN o : i # j => o[i] # o[j]}

\* manifests with unique sids: a header and no rows, rows in ascending and
\* in other file orders, and rows with an assignment that is not in the map
VerifyManifests ==
    {[i \in DOMAIN o |-> ManifestRow(o[i])] : o \in SidOrders}
        \cup {BadList(i) : i \in 1..MaxSid}

\* persisted tables: any set of sids, each row with any assignment of the
\* map and any site
VerifyTables ==
    UNION {[S -> {NewSlot([sid |-> 0, assignment |-> a, site_name |-> site]) :
                     a \in DOMAIN AssignmentMap, site \in SiteNames}] :
              S \in SUBSET (1..MaxSid)}

\* a manifest file, in place or not, next to a persisted table
InitVerify ==
    /\ manifest \in VerifyManifests
    /\ fileExists \in BOOLEAN
    /\ \E tbl \in VerifyTables :
          slots = [s \in DOMAIN tbl |-> [tbl[s] EXCEPT !.sid = s]]
    /\ regs = [s \in Subjects |-> NoReg]
    /\ pc = [p \in Calls |-> "idle"]
    /\ args = [p \in Calls |-> NoArgs]
    /\ mobj = [p \in Calls |-> NoObj]
    /\ robj = [p \in Calls |-> NoObj]
    /\ err = [p \in Calls |-> NoErr]
    /\ messages = NoMessages
    /\ returned = NoReturn
    /\ registry = DefaultRegistry
    /\ slotsOther = EmptyTable
    /\ default_csv_fieldnames = DefaultCsvFieldnames
    /\ fieldnames = NoFieldnames

\* the verifier is constructed on the file and the table
NextVerify ==
    \E extraGiven \in BOOLEAN, maintenance \in BOOLEAN :
        VerifyList(extraGiven, maintenance)

SpecVerify == InitVerify /\ [][NextVerify]_vars

\* one operation at a time, nothing imported yet: calls of schemes with
\* well and ill configured description maps, and enrolments
NextConfig ==
    \/ Quiescent /\ Activate(Caller)
    \/ Step(Caller)
    \/ \E s \in Subjects : Register(s)

SpecConfig == InitSeq /\ [][NextConfig]_vars

\* the process starts: no class is registered, the list is imported, its
\* manifest file is in place or not
InitRegistry ==
    /\ manifest = TestList
    /\ fileExists \in BOOLEAN
    /\ slots = ImportList(TestList, EmptyTable, FALSE).slots
    /\ regs = [s \in Subjects |-> NoReg]
    /\ pc = [p \in Calls |-> "idle"]
    /\ args = [p \in Calls |-> NoArgs]
    /\ mobj = [p \in Calls |-> NoObj]
    /\ robj = [p \in Calls |-> NoObj]
    /\ err = [p \in Calls |-> NoErr]
    /\ messages = NoMessages
    /\ returned = NoReturn
    /\ registry = NoRegistry
    /\ slotsOther = EmptyTable
    /\ default_csv_fieldnames = DefaultCsvFieldnames
    /\ fieldnames = NoFieldnames

\* classes are registered, names are looked up and the list is verified
NextRegistry ==
    \/ \E cls \in RandomizerClasses \cup {NotARandomizer} : RegisterRandomizer(cls)
    \/ \E name \in SchemeNames : GetRandomizer(name)
    \/ \E extraGiven \in BOOLEAN, maintenance \in BOOLEAN :
          VerifyList(extraGiven, maintenance)

SpecRegistry == InitRegistry /\ [][NextRegistry]_vars

\* one call at a time, through the default scheme or through a coexisting
\* scheme with its own Slot table; both share the Registration table
NextSchemes ==
    \/ Quiescent /\ Randomize(Caller)
    \/ Quiescent /\ RandomizeOther(Caller)
    \/ Step(Caller)

SpecSchemes == Init /\ [][NextSchemes]_vars

\* the operations of SpecOps, and callers that ask for assignments between
\* them
NextReads ==
    \/ NextOps
    \/ Quiescent /\ \E s \in Subjects : GetAssignment(s)

SpecReads == Init /\ [][NextReads]_vars

\* verifiers are constructed one after the other in one process, for schemes
\* that declare extra columns or none
NextColumns ==
    \E extraGiven \in BOOLEAN, extra \in ExtraCsvFieldnames, maintenance \in BOOLEAN :
        VerifyListExtra(extraGiven, extra, maintenance)

SpecColumns == InitVerify /\ [][NextColumns]_vars

(* ------------------------------ claims -------------------------------- *)

\* the call of p performs the step that leads from one position to another
Steps(p, from, to) == pc[p] = from /\ pc'[p] = to

\* the call of p has ended, by returning or by raising
Ended(p) == pc[p] \in {"done", "raised"}

\* C1: under any interleaving of concurrent calls for distinct enrolled
\* subjects, no two Registrations carry the same sid, and the Slot a call
\* succeeded with stays bound to that call's subject.
C1_NoSlotGivenTwice ==
    /\ \A x, y \in Subjects :
          (x # y /\ regs[x] # NoReg /\ regs[y] # NoReg /\ regs[x].sid # None)
              => regs[x].sid # regs[y].sid
    /\ \A p \in Calls :
          pc[p] = "done"
              => slots[mobj[p].sid].subject_identifier = args[p].subject_identifier

\* C2: when two calls for different subjects have both selected the last
\* free Slot of a site and both have ended, exactly one has succeeded and the
\* other has failed with AllocationError.
C2_LastSlotRace ==
    \A p, q \in Calls :
        ( /\ p # q
          /\ Ended(p) /\ Ended(q)
          /\ args[p].subject_identifier # args[q].subject_identifier
          /\ mobj[p] # NoObj /\ mobj[q] # NoObj
          /\ mobj[p].sid = mobj[q].sid
          /\ Available(slots, args[p].site) = {} )
        => \/ pc[p] = "done" /\ pc[q] = "raised" /\ err[q].type = "AllocationError"
           \/ pc[q] = "done" /\ pc[p] = "raised" /\ err[p].type = "AllocationError"

\* C3: two calls for the same subject never both succeed: exactly one of
\* them does, and the other fails.
C3_SameSubjectOnce ==
    \A p, q \in Calls :
        (p # q /\ args[p].subject_identifier = args[q].subject_identifier)
            => ~(pc[p] = "done" /\ pc[q] = "done")

\* C4: a Slot is bound to a subject whose Registration has a null sid only
\* while a call for that subject is between its two writes; once the call is
\* over, in whatever way, both writes are there or neither is.
C4_BothWritesOrNeither ==
    \A k \in DOMAIN slots :
        LET s == slots[k].subject_identifier
        IN  (s # None /\ regs[s] # NoReg /\ regs[s].sid = None)
            => \E p \in Calls :
                  /\ args[p].subject_identifier = s
                  /\ pc[p] \in {"model_obj_requery", "registration_save"}

\* C9: once a Slot's subject_identifier is set, no step of any call changes
\* any field of that Slot.
C9_SlotWrittenOnce ==
    [][\A k \in DOMAIN slots :
          slots[k].subject_identifier # None
              => (k \in DOMAIN slots' /\ slots'[k] = slots[k])]_vars

FreeAt(k, site) ==
    slots[k].subject_identifier = None /\ slots[k].site_name = site

\* C6: the Slot a call selects is the one with the smallest sid among the
\* Slots of the caller's site that are unallocated when it selects; the call
\* writes that Slot and no other; with no such Slot it fails with
\* AllocationError and claims nothing, whatever other sites hold.
C6_SmallestFreeSidOfSite ==
    [][\A p \in Calls :
          /\ Steps(p, "model_obj_filter", "model_obj_save")
                => /\ mobj'[p].sid \in DOMAIN slots
                   /\ FreeAt(mobj'[p].sid, args[p].site)
                   /\ \A k \in DOMAIN slots :
                         FreeAt(k, args[p].site) => mobj'[p].sid <= k
          /\ Steps(p, "model_obj_filter", "raised")
                => /\ err'[p].type = "AllocationError"
                   /\ \A k \in DOMAIN slots : ~FreeAt(k, args[p].site)
                   /\ slots' = slots
          /\ Steps(p, "model_obj_save", "model_obj_requery")
                => /\ \A k \in DOMAIN slots : k # mobj[p].sid => slots'[k] = slots[k]
                   /\ slots'[mobj[p].sid].subject_identifier = args[p].subject_identifier
                   /\ slots'[mobj[p].sid].site_name = args[p].site]_vars

\* C6 happens: a call has succeeded with a Slot of its site while a Slot of
\* another site with a smaller sid is still unallocated.
C6_Witness ==
    \E p \in Calls :
        /\ pc[p] = "done"
        /\ slots[mobj[p].sid].subject_identifier = args[p].subject_identifier
        /\ \E k \in DOMAIN slots :
              /\ k < mobj[p].sid
              /\ slots[k].subject_identifier = None
              /\ slots[k].site_name # args[p].site

\* the sids of the Slots of a site
SiteSids(site) == {k \in DOMAIN slots : slots[k].site_name = site}

\* the sids of the allocated Slots of a site
Taken(site) == {k \in SiteSids(site) : slots[k].subject_identifier # None}

\* the call of the caller is for an enrolled, unallocated subject with no
\* Slot, has every required attribute, and its site has a free Slot
Eligible ==
    LET a == args[Caller]
    IN  /\ regs[a.subject_identifier] # NoReg
        /\ regs[a.subject_identifier].sid = None
        /\ a.allocated_datetime # None /\ a.user # None /\ a.site # None
        /\ \A k \in DOMAIN slots : slots[k].subject_identifier # a.subject_identifier
        /\ Taken(a.site) # SiteSids(a.site)

\* C5: in a single-threaded run the i-th successful call of a site claims
\* the i-th smallest sid of that site, above every sid claimed before; a call
\* for an eligible subject never fails while its site has a free Slot; a call
\* that fails with AllocationError finds every Slot of its site allocated and
\* changes no Slot and no Registration.
C5_SequentialOrder ==
    [][LET p == Caller
           site == args[p].site
       IN  /\ Steps(p, "model_obj_save", "model_obj_requery")
                 => LET k == mobj[p].sid
                    IN  /\ k \in SiteSids(site)
                        /\ slots[k].subject_identifier = None
                        /\ slots'[k].subject_identifier = args[p].subject_identifier
                        /\ Cardinality({j \in SiteSids(site) : j < k})
                              = Cardinality(Taken(site))
                        /\ \A j \in Taken(site) : j < k
           /\ (pc[p] \in InFlight /\ pc'[p] = "raised")
                 => /\ ~Eligible
                    /\ pc[p] \in {"registration_obj", "registration_get",
                                  "model_obj_get", "model_obj_filter"}
                    /\ err'[p].type = "AllocationError"
                          => (pc[p] = "model_obj_filter" /\ Taken(site) = SiteSids(site))
           /\ pc[p] \in {"registration_obj", "registration_get",
                         "model_obj_get", "model_obj_filter"}
                 => (slots' = slots /\ regs' = regs)]_vars

\* C5 happens: a site with two Slots, both claimed in turn by two subjects
\* whose Registrations carry those sids, and the next call at that site has
\* failed with AllocationError.
C5_Witness ==
    LET site == args[Caller].site
    IN  /\ pc[Caller] = "raised" /\ err[Caller].type = "AllocationError"
        /\ Cardinality(SiteSids(site)) >= 2
        /\ Taken(site) = SiteSids(site)
        /\ \A k \in SiteSids(site) :
              regs[slots[k].subject_identifier].sid = ToString(k)
        /\ regs[args[Caller].subject_identifier].sid = None

\* C7: while the verifier would report a discrepancy, no step of a call
\* writes a Slot or a Registration.
C7_DiscrepancyBlocksAllocation ==
    [][(pc' # pc /\ Discrepancies(manifest, fileExists, slots).messages # <<>>)
          => (slots' = slots /\ regs' = regs)]_vars

\* C8: every Registration with a sid matches exactly one Slot, and that Slot
\* has this sid and is bound to the Registration's identifier.
C8_RegistrationMatchesOneSlot ==
    \A s \in Subjects :
        (regs[s] # NoReg /\ regs[s].sid # None)
            => /\ Cardinality({k \in DOMAIN slots : ToString(slots[k].sid) = regs[s].sid}) = 1
               /\ \A k \in DOMAIN slots :
                     ToString(slots[k].sid) = regs[s].sid
                         => slots[k].subject_identifier = s

\* C8 happens: after an import, successful calls, a failed call and a
\* verification, two Registrations carry sids.
C8_Witness ==
    /\ Cardinality({s \in Subjects : regs[s] # NoReg /\ regs[s].sid # None}) >= 2
    /\ pc[Caller] = "raised"
    /\ messages # NoMessages

\* the Registration of the subject of the caller's call has a sid
HasSid(p) ==
    LET s == args[p].subject_identifier
    IN  regs[s] # NoReg /\ regs[s].sid # None

\* C11: a call for a subject whose Registration has a non-null sid goes from
\* the first Registration query to the second and from there fails with
\* AlreadyRandomized carrying the registration label, whatever attributes are
\* missing and whether or not a Slot is bound to the subject; neither step
\* changes a Slot or a Registration.
C11_AlreadyRandomizedFirst ==
    [][LET p == Caller
       IN  /\ (pc[p] = "registration_obj" /\ HasSid(p) /\ pc'[p] # pc[p]
                  /\ pc'[p] # "interrupted")
                 => /\ pc'[p] = "registration_get"
                    /\ slots' = slots /\ regs' = regs
           /\ (pc[p] = "registration_get" /\ HasSid(p) /\ pc'[p] # pc[p]
                  /\ pc'[p] # "interrupted")
                 => /\ pc'[p] = "raised"
                    /\ err'[p] = [type |-> "AlreadyRandomized", code |-> RegistrationLabel]
                    /\ slots' = slots /\ regs' = regs]_vars

\* C11 happens: a call with no user, for a subject whose Registration has a
\* sid and to whom no Slot is bound, has failed with AlreadyRandomized
\* carrying the registration label.
C11_Witness ==
    LET p == Caller
    IN  /\ pc[p] = "raised"
        /\ err[p] = [type |-> "AlreadyRandomized", code |-> RegistrationLabel]
        /\ args[p].user = None
        /\ HasSid(p)
        /\ BoundTo(slots, args[p].subject_identifier) = {}

\* the call of p takes a step of its code (it is not stopped)
Acts(p) == pc[p] \in InFlight /\ pc'[p] \notin {pc[p], "interrupted"}

\* C12: a call that reaches model_obj for a subject already bound to a Slot
\* fails with AlreadyRandomized carrying the Slot model's label, which is not
\* the registration label; it changes no Slot and the Registration's sid
\* stays null.
C12_SlotBoundAlreadyRandomized ==
    [][LET p == Caller
           s == args[p].subject_identifier
       IN  (Acts(p) /\ pc[p] = "model_obj_get" /\ BoundTo(slots, s) # {})
              => /\ pc'[p] = "raised"
                 /\ err'[p] = [type |-> "AlreadyRandomized", code |-> ModelLabel]
                 /\ ModelLabel # RegistrationLabel
                 /\ slots' = slots
                 /\ regs' = regs
                 /\ regs'[s].sid = None]_vars

\* C12 happens: the Registration has a null sid, a Slot is bound to the
\* subject, the site still has a free Slot, and the call has failed with
\* AlreadyRandomized carrying the Slot model's label.
C12_Witness ==
    LET p == Caller
        s == args[p].subject_identifier
    IN  /\ pc[p] = "raised"
        /\ err[p] = [type |-> "AlreadyRandomized", code |-> ModelLabel]
        /\ regs[s] # NoReg /\ regs[s].sid = None
        /\ BoundTo(slots, s) # {}
        /\ Available(slots, args[p].site) # {}

\* C13: a call for a subject with no Registration goes from the first
\* Registration query to the second and from there fails with
\* RandomizationError (does not exist); neither step changes a Slot or a
\* Registration.
C13_RegistrationNotFound ==
    [][LET p == Caller
           s == args[p].subject_identifier
       IN  /\ (Acts(p) /\ pc[p] = "registration_obj" /\ regs[s] = NoReg)
                 => /\ pc'[p] = "registration_get"
                    /\ slots' = slots /\ regs' = regs
           /\ (Acts(p) /\ pc[p] = "registration_get" /\ regs[s] = NoReg)
                 => /\ pc'[p] = "raised"
                    /\ err'[p] = [type |-> "RandomizationError", code |-> "does_not_exist"]
                    /\ mobj'[p] = NoObj
                    /\ slots' = slots /\ regs' = regs]_vars

\* C13 happens: the call for an unregistered subject has failed with
\* RandomizationError while its site has a free Slot.
C13_Witness ==
    LET p == Caller
    IN  /\ pc[p] = "raised"
        /\ err[p] = [type |-> "RandomizationError", code |-> "does_not_exist"]
        /\ regs[args[p].subject_identifier] = NoReg
        /\ args[p].site # None
        /\ Available(slots, args[p].site) # {}
        /\ \A k \in DOMAIN slots : slots[k].subject_identifier # args[p].subject_identifier

\* an attribute randomize() requires is missing from the call of p
Missing(p) ==
    \E f \in {"allocated_datetime", "user", "site"} : args[p][f] = None

\* C14: a call for a registered subject with a null sid and a required
\* attribute missing fails with RandomizationError (insufficient data) at
\* once: no Slot has been selected, and no Slot and no Registration changes.
C14_InsufficientData ==
    [][LET p == Caller
           s == args[p].subject_identifier
       IN  (Acts(p) /\ pc[p] = "registration_obj" /\ Missing(p)
               /\ regs[s] # NoReg /\ regs[s].sid = None)
              => /\ pc'[p] = "raised"
                 /\ err'[p] = [type |-> "RandomizationError", code |-> "insufficient_data"]
                 /\ mobj[p] = NoObj /\ mobj'[p] = NoObj
                 /\ slots' = slots /\ regs' = regs]_vars

\* C14 happens: a call without a site, for a registered subject with a null
\* sid and no Slot, has failed with RandomizationError (insufficient data)
\* while free Slots exist.
C14_Witness ==
    LET p == Caller
        s == args[p].subject_identifier
    IN  /\ pc[p] = "raised"
        /\ err[p] = [type |-> "RandomizationError", code |-> "insufficient_data"]
        /\ args[p].site = None
        /\ regs[s] # NoReg /\ regs[s].sid = None
        /\ BoundTo(slots, s) = {}
        /\ \E k \in DOMAIN slots : slots[k].subject_identifier = None

\* C15: when a call returns, the Slot it claimed carries the call's subject,
\* datetime, user and site and allocated = TRUE, with its sid, assignment and
\* site_name as imported, and the subject's Registration carries that sid,
\* the Slot's allocated_datetime and the status RANDOMIZED; the only rows a
\* call changes are that Slot, at its save, and that Registration, at its
\* save.
C15_SuccessWritesBothRecords ==
    [][LET p == Caller
           a == args[p]
           s == a.subject_identifier
       IN  /\ Steps(p, "registration_requery", "done")
                 => LET k == mobj'[p].sid
                    IN  /\ slots'[k].subject_identifier = s
                        /\ slots'[k].allocated = TRUE
                        /\ slots'[k].allocated_datetime = a.allocated_datetime
                        /\ slots'[k].allocated_user = a.user
                        /\ slots'[k].allocated_site = a.site
                        /\ regs'[s].subject_identifier = s
                        /\ regs'[s].sid = ToString(k)
                        /\ regs'[s].randomization_datetime = slots'[k].allocated_datetime
                        /\ regs'[s].registration_status = RANDOMIZED
           /\ pc[p] \in InFlight
                 => /\ DOMAIN slots' = DOMAIN slots
                    /\ \A k \in DOMAIN slots :
                          slots'[k] # slots[k]
                             => /\ pc[p] = "model_obj_save"
                                /\ k = mobj[p].sid
                                /\ slots[k].subject_identifier = None
                                /\ slots'[k].sid = slots[k].sid
                                /\ slots'[k].assignment = slots[k].assignment
                                /\ slots'[k].site_name = slots[k].site_name
                    /\ \A x \in Subjects :
                          regs'[x] # regs[x]
                             => (pc[p] = "registration_save" /\ x = s)]_vars

\* C15 happens: a call has returned for one subject while another subject
\* holds a Slot and a Registration with a sid from an earlier call.
C15_Witness ==
    LET p == Caller
        s == args[p].subject_identifier
    IN  /\ pc[p] = "done"
        /\ regs[s].sid = ToString(mobj[p].sid)
        /\ slots[mobj[p].sid].subject_identifier = s
        /\ \E x \in Subjects \ {s} :
              /\ regs[x] # NoReg /\ regs[x].sid # None
              /\ BoundTo(slots, x) # {}

Imported == returned'.method \in {"RandomizationListImporter", "import_list"}

\* every row of a manifest carries an assignment of the map
Valid(mf) == \A i \in 1..Len(mf) : mf[i].assignment \in DOMAIN AssignmentMap

\* the table an import of a manifest creates: one unallocated Slot per row
Fresh(mf, tbl) ==
    /\ DOMAIN tbl = {mf[i].sid : i \in 1..Len(mf)}
    /\ Cardinality(DOMAIN tbl) = Len(mf)
    /\ \A i \in 1..Len(mf) :
          tbl[mf[i].sid] = [sid |-> mf[i].sid, assignment |-> mf[i].assignment,
                            site_name |-> mf[i].site_name,
                            subject_identifier |-> None, allocated |-> FALSE,
                            allocated_datetime |-> None, allocated_user |-> None,
                            allocated_site |-> None]

\* C17: every import without overwrite into a populated table leaves every
\* Slot and every Registration as it was, and the importer fails with the
\* already-imported error.
C17_NoOverwriteNoWrite ==
    [][(Imported /\ ~returned'.arg /\ DOMAIN slots # {})
          => /\ slots' = slots
             /\ regs' = regs
             /\ returned'.method = "RandomizationListImporter"
                   => returned'.raised = "RandomizationListAlreadyImported"]_vars

\* C17 happens: the importer has failed with the already-imported error on
\* a table that holds an allocated Slot and an unallocated one.
C17_Witness ==
    /\ returned.method = "RandomizationListImporter"
    /\ returned.arg = FALSE
    /\ returned.raised = "RandomizationListAlreadyImported"
    /\ \E k \in DOMAIN slots : slots[k].subject_identifier # None
    /\ \E k \in DOMAIN slots : slots[k].subject_identifier = None

\* C18: an import of a valid manifest into an empty table succeeds and
\* creates exactly one unallocated Slot per row, with the row's sid,
\* assignment and site.
C18_ImportCreatesOneSlotPerRow ==
    [][(Imported /\ fileExists /\ Valid(manifest) /\ DOMAIN slots = {})
          => /\ returned'.raised = None
             /\ returned'.value = Len(manifest)
             /\ Fresh(manifest, slots')]_vars

\* C18 happens: Randomizer.import_list has loaded, into an empty table, a
\* manifest whose sids do not start at 1.
C18_Witness ==
    /\ returned.method = "import_list"
    /\ returned.raised = None
    /\ manifest = ShortList
    /\ DOMAIN slots = 2..MaxSid

\* C19: an import with overwrite of a valid manifest into a populated table
\* succeeds and leaves exactly one unallocated Slot per manifest row,
\* whatever the table held, Slots bound to subjects included.
C19_OverwriteReplacesTable ==
    [][(Imported /\ returned'.arg /\ fileExists /\ Valid(manifest)
           /\ DOMAIN slots # {})
          => /\ returned'.raised = None
             /\ Fresh(manifest, slots')
             /\ regs' = regs]_vars

\* C19 happens: an import with overwrite has returned and every Slot is
\* unallocated while a Registration still carries the sid of the Slot that
\* was bound to its subject.
C19_Witness ==
    /\ returned.method \in {"RandomizationListImporter", "import_list"}
    /\ returned.arg = TRUE
    /\ returned.raised = None
    /\ \A k \in DOMAIN slots : slots[k].subject_identifier = None
    /\ \E s \in Subjects : regs[s] # NoReg /\ regs[s].sid # None

\* C20: an import that is not refused as already imported, of a manifest
\* with a row whose assignment is not in the map, fails with
\* InvalidAssignment and creates no Slot.
C20_InvalidAssignmentCreatesNothing ==
    [][(Imported /\ fileExists /\ ~Valid(manifest)
           /\ (DOMAIN slots = {} \/ returned'.arg))
          => /\ returned'.raised = "InvalidAssignment"
             /\ DOMAIN slots' \subseteq DOMAIN slots
             /\ \A k \in DOMAIN slots' : slots'[k] = slots[k]]_vars

\* C20 happens: the import of a manifest whose last row is invalid has
\* failed with InvalidAssignment and the table is empty.
C20_Witness ==
    /\ returned.method \in {"RandomizationListImporter", "import_list"}
    /\ returned.raised = "InvalidAssignment"
    /\ manifest = BadList(MaxSid)
    /\ slots = EmptyTable

\* the persisted Slots match the manifest exactly: as many rows, the same
\* sids, and for each sid the same assignment and site_name
Matches(mf, tbl) ==
    /\ Len(mf) = Cardinality(DOMAIN tbl)
    /\ {mf[i].sid : i \in 1..Len(mf)} = DOMAIN tbl
    /\ \A i \in 1..Len(mf) :
          /\ tbl[mf[i].sid].assignment = mf[i].assignment
          /\ tbl[mf[i].sid].site_name = mf[i].site_name

\* the rows of the manifest file are in ascending order of sid
Ascending(mf) == \A i, j \in 1..Len(mf) : i < j => mf[i].sid < mf[j].sid

\* a verifier has just been constructed and its verify() has run: the
\* table has rows and the manifest file is in place
Verified ==
    /\ returned.method = "verify_list"
    /\ returned.raised # "TypeError"
    /\ SiteRandomizersGet(registry, ClassName("Randomizer")) # None
    /\ DOMAIN slots # {}
    /\ fileExists

\* verify() has returned an empty discrepancy list
NoDiscrepancy == messages.raised = None /\ messages.messages = <<>>

RowOf(mf, k) == mf[CHOOSE i \in 1..Len(mf) : mf[i].sid = k]

\* the table holds one Slot per manifest row and differs from the manifest
\* in the Slot of sid k alone
OnlySlotChanged(mf, tbl, k) ==
    /\ Len(mf) = Cardinality(DOMAIN tbl)
    /\ {mf[i].sid : i \in 1..Len(mf)} = DOMAIN tbl
    /\ k \in DOMAIN tbl
    /\ \A s \in DOMAIN tbl \ {k} :
          /\ tbl[s].assignment = RowOf(mf, s).assignment
          /\ tbl[s].site_name = RowOf(mf, s).site_name

ComparedRowsMatch(mf, tbl) ==
    LET sids == OrderBySid(DOMAIN tbl)
    IN  \A i \in 1..Len(mf) :
           i <= Len(sids)
              => /\ mf[i].sid = sids[i]
                 /\ mf[i].assignment = tbl[sids[i]].assignment
                 /\ mf[i].site_name = tbl[sids[i]].site_name

\* C23: when every compared row matches and the manifest's row count differs
\* from the persisted count, verify() reports the count mismatch with both
\* numbers, whether the table has more rows or fewer rows than the manifest
\* or the manifest has no rows
C23_CountMismatchReported ==
    (Verified /\ ComparedRowsMatch(manifest, slots)
        /\ Len(manifest) # Cardinality(DOMAIN slots))
        => messages.messages =
              <<Message("count", None, None, ToString(Len(manifest)),
                        ToString(Cardinality(DOMAIN slots)))>>

\* a verifier has just been constructed: its constructor went past the
\* csv fieldnames and found its randomizer registered
Constructed ==
    /\ returned.method = "verify_list"
    /\ returned.raised # "TypeError"
    /\ SiteRandomizersGet(registry, ClassName("Randomizer")) # None

\* C24: on an empty table the verifier reports "not loaded" and nothing
\* else, with the manifest file in place or not; on a table with rows and no
\* manifest file it reports "file missing" and nothing else; either way no
\* row is compared, so nothing is raised from a comparison
C24_NotLoadedOrFileMissing ==
    Constructed
        => /\ DOMAIN slots = {}
                 => messages.messages =
                       <<Message("not_loaded", None, None, None, None)>>
           /\ (DOMAIN slots # {} /\ ~fileExists)
                 => messages.messages =
                       <<Message("file_missing", None, None, None, None)>>
           /\ (DOMAIN slots = {} \/ ~fileExists)
                 => messages.raised \in {None, "RandomizationListError"}

\* C24 happens: the verifier has reported "not loaded" on an empty table
\* with no manifest file in place
C24_Witness ==
    /\ Constructed
    /\ DOMAIN slots = {}
    /\ ~fileExists
    /\ Len(messages.messages) = 1
    /\ messages.messages[1].kind = "not_loaded"

\* the verifier has finished: its constructor has come to the test of its
\* messages, no exception having left it on the way
Finished ==
    /\ Constructed
    /\ messages.raised \in {None, "RandomizationListError"}

\* C29: a verifier that finishes with a non-empty discrepancy list raises
\* RandomizationListError carrying the list, unless it runs under one of the
\* maintenance commands migrate, makemigrations, import_randomization_list,
\* under which it returns the list; with an empty list it does not raise
C29_RaisesUnlessMaintenance ==
    Finished
        => /\ (messages.messages # <<>> /\ ~returned.arg)
                 => messages.raised = "RandomizationListError"
           /\ (messages.messages # <<>> /\ returned.arg)
                 => messages.raised = None
           /\ messages.messages = <<>> => messages.raised = None
           /\ messages.messages = Discrepancies(manifest, fileExists, slots).messages

\* C29 happens: under a maintenance command a verifier has returned a
\* discrepancy found by comparing rows
C29_Witness ==
    /\ Finished
    /\ returned.arg
    /\ DOMAIN slots # {}
    /\ fileExists
    /\ messages.messages # <<>>
    /\ messages.raised = None

\* the lines of the manifest that disagree with the table: no Slot at the
\* position of the line, or a Slot with another sid, assignment or site_name
Disagreeing(mf, tbl) ==
    LET sids == OrderBySid(DOMAIN tbl)
    IN  {i \in 1..Len(mf) :
            \/ i > Len(sids)
            \/ mf[i].sid # sids[i]
            \/ mf[i].assignment # tbl[sids[i]].assignment
            \/ mf[i].site_name # tbl[sids[i]].site_name}

\* the message is about line i of the manifest: it names the line or the
\* sid of its row
Concerns(msg, mf, i) ==
    \/ msg.kind = "invalid_sids" /\ msg.line = ToString(i)
    \/ /\ msg.kind \in {"invalid_sid", "assignment", "site_name"}
       /\ msg.sid = ToString(mf[i].sid)

\* C30: verify() is fail-fast: the discrepancy list never holds more than
\* one entry, and when several lines of a manifest (assignments of the map)
\* disagree with the table, the list holds one entry and it concerns the
\* lowest of these lines
C30_FailFastLowestLine ==
    Verified
        => /\ Len(messages.messages) <= 1
           /\ (Valid(manifest) /\ Cardinality(Disagreeing(manifest, slots)) > 1)
                 => /\ Len(messages.messages) = 1
                    /\ Concerns(messages.messages[1], manifest,
                                Min(Disagreeing(manifest, slots)))

\* the call of p is constructed in this step
Constructs(p) ==
    /\ pc[p] \in Over
    /\ <<pc'[p], args'[p], err'[p]>> # <<pc[p], args[p], err[p]>>

\* C25: constructing the engine of a scheme whose description map does not
\* have the key set of its AssignmentMap raises
\* InvalidAssignmentDescriptionMap and writes no Slot and no Registration
\* (the list is not imported); with the same key set, in any order, the
\* constructor does not raise it
C25_DescriptionMapValidatedFirst ==
    [][\A p \in Calls :
          Constructs(p)
             => LET dmap == args'[p].assignment_description_map
                    keys == {dmap[i] : i \in 1..Len(dmap)}
                IN  IF keys # DOMAIN AssignmentMap
                    THEN /\ pc'[p] = "raised"
                         /\ err'[p].type = "InvalidAssignmentDescriptionMap"
                         /\ slots' = slots
                         /\ regs' = regs
                    ELSE err'[p].type # "InvalidAssignmentDescriptionMap"]_vars

\* C25 happens: with the manifest file in place and nothing imported, a
\* call of an ill configured scheme has raised for an enrolled subject and
\* the table is still empty
C25_Witness ==
    \E p \in Calls :
        /\ pc[p] = "raised"
        /\ err[p].type = "InvalidAssignmentDescriptionMap"
        /\ regs[args[p].subject_identifier] # NoReg
        /\ fileExists
        /\ slots = EmptyTable

\* C26: the registry maps a name to at most one class: a name once taken
\* keeps its class, registering a second class under a taken name fails as
\* a configuration error and leaves the registry as it was, registering
\* under a free name binds the name, and the lookup of a name that was never
\* registered returns None
C26_RegistryOneSchemePerName ==
    [][/\ \A n \in SchemeNames : registry[n] # None => registry'[n] = registry[n]
       /\ (returned'.method = "register" /\ returned'.arg \in RandomizerClasses)
             => LET cls == returned'.arg
                IN  IF registry[ClassName(cls)] # None
                    THEN /\ returned'.raised = "ConfigurationError"
                         /\ registry' = registry
                    ELSE /\ returned'.raised = None
                         /\ registry' = [registry EXCEPT ![ClassName(cls)] = cls]
       /\ returned'.method = "get"
             => /\ registry' = registry
                /\ returned'.value = registry[returned'.arg]
                /\ (\A cls \in RandomizerClasses :
                       registry[ClassName(cls)] = cls => ClassName(cls) # returned'.arg)
                      => returned'.value = None]_vars

\* C26 happens: a second class has been refused under the name of a
\* registered class, which is still the one registered
C26_Witness ==
    /\ returned.method = "register"
    /\ returned.raised = "ConfigurationError"
    /\ registry[ClassName(returned.arg)] \notin {None, returned.arg}

\* the call of p has written its Slot and not yet read it back, and the Slot
\* is by now bound to another subject
Rebound(p) ==
    /\ pc[p] = "model_obj_requery"
    /\ mobj[p] # NoObj
    /\ slots[mobj[p].sid].subject_identifier
          \notin {None, args[p].subject_identifier}

\* C27: a call whose Slot a concurrent writer has rebound to another
\* subject between its Slot write and its re-read fails at the re-read with
\* AllocationError and writes no Registration
C27_ReboundSlotAllocationError ==
    [][\A p \in Calls :
          (Rebound(p) /\ Acts(p))
             => /\ pc'[p] = "raised"
                /\ err'[p].type = "AllocationError"
                /\ regs' = regs]_vars

\* C28: whatever the interleaving of the calls, the allocated Slots of a
\* site are its Slots of smallest sid: no Slot that is unallocated (or bound
\* to no subject) has a smaller sid than an allocated Slot of the same site
C28_AllocatedPrefixPerSite ==
    \A site \in SiteNames :
        \A j, k \in SiteSids(site) :
            (j < k /\ slots[k].allocated)
               => /\ slots[j].allocated
                  /\ slots[j].subject_identifier # None

\* C28 happens: while a call is in flight, every Slot of one site is
\* allocated and the Slot between them, of the other site, is not
C28_Witness ==
    /\ \E p \in Calls : pc[p] \in InFlight
    /\ \E site \in SiteNames :
          /\ Cardinality(SiteSids(site)) > 1
          /\ \A k \in SiteSids(site) : slots[k].allocated
          /\ \E j \in DOMAIN slots \ SiteSids(site) :
                /\ ~slots[j].allocated
                /\ \E k \in SiteSids(site) : j < k

\* line i is the first line of the manifest that disagrees with the table
FirstDisagreeing(mf, tbl, i) ==
    /\ Disagreeing(mf, tbl) # {}
    /\ i = Min(Disagreeing(mf, tbl))

\* C31: verify() compares manifest row i with the i-th smallest persisted
\* sid: when the sid of the first disagreeing row i is not persisted at all,
\* the one discrepancy is an invalid-SID message that names line i; when it
\* is persisted and is not the i-th smallest persisted sid, the one
\* discrepancy is a positional mismatch that names line i and both sids
C31_PositionalComparison ==
    Verified
        => \A i \in 1..Len(manifest) :
              FirstDisagreeing(manifest, slots, i)
                 => /\ manifest[i].sid \notin DOMAIN slots
                          => /\ Len(messages.messages) = 1
                             /\ messages.messages[1].kind = "invalid_sid"
                             /\ messages.messages[1].line = ToString(i)
                    /\ (/\ manifest[i].sid \in DOMAIN slots
                        /\ manifest[i].sid # OrderBySid(DOMAIN slots)[i])
                          => messages.messages =
                                <<Message("invalid_sids", ToString(i), None,
                                          ToString(manifest[i].sid),
                                          ToString(OrderBySid(DOMAIN slots)[i]))>>

\* C32 as stated: constructing the engine imports without overwrite: on an
\* empty table it loads the (valid) manifest, on a populated table it does
\* not fail and leaves every Slot as it was
C32_ConstructionIdempotent ==
    [][\A p \in Calls :
          Constructs(p)
             => IF DOMAIN slots = {}
                THEN Valid(manifest)
                        => /\ Fresh(manifest, slots')
                           /\ pc'[p] = "registration_obj"
                ELSE /\ slots' = slots
                     /\ pc'[p] = "registration_obj"]_vars

\* C32: with the manifest file in place, constructing the engine imports
\* without overwrite: on an empty table it loads the (valid) manifest, on a
\* populated table it does not fail and leaves every Slot, allocated or not,
\* as it was
C32_ConstructionIdempotentWithFile ==
    [][\A p \in Calls :
          (Constructs(p) /\ fileExists)
             => IF DOMAIN slots = {}
                THEN Valid(manifest)
                        => /\ Fresh(manifest, slots')
                           /\ pc'[p] = "registration_obj"
                ELSE /\ slots' = slots
                     /\ pc'[p] = "registration_obj"]_vars

\* C32 happens: an engine has been constructed on a table that holds an
\* allocated Slot and a free one, and the call is about to proceed
C32_Witness ==
    /\ fileExists
    /\ pc[Caller] = "registration_obj"
    /\ \E j, k \in DOMAIN slots :
          /\ slots[j].subject_identifier # None
          /\ slots[k].subject_identifier = None

\* the call of p runs under the coexisting scheme for a subject that holds a
\* Slot of the default scheme and none of the coexisting scheme
OtherSchemeCall(p) ==
    /\ pc[p] \in InFlight
    /\ args[p].model = OtherModelLabel
    /\ BoundTo(slots, args[p].subject_identifier) # {}
    /\ BoundTo(slotsOther, args[p].subject_identifier) = {}

\* C33: allocation state is kept per (scheme, subject): a call under the
\* coexisting scheme for a subject allocated under the default scheme only
\* is not rejected as AlreadyRandomized, when it returns the subject holds a
\* Slot of the coexisting scheme's table, and no step of it touches the
\* Slots of the default scheme.
C33_AllocationPerScheme ==
    [][\A p \in Calls :
          OtherSchemeCall(p)
             => /\ pc'[p] = "raised" => err'[p].type # "AlreadyRandomized"
                /\ pc'[p] = "done"
                      => BoundTo(slotsOther', args[p].subject_identifier) # {}
                /\ slots' = slots]_vars

\* the step is a run of verify_list or of get_assignment
ReadOnlyCall == returned'.method \in {"verify_list", "get_assignment"}

\* C34: verify_list and get_assignment are read-only: whether they return
\* or raise, every Slot, every Registration and the manifest are the same
\* before and after.
C34_ReadOnly ==
    [][ReadOnlyCall => /\ slots' = slots
                       /\ slotsOther' = slotsOther
                       /\ regs' = regs
                       /\ manifest' = manifest
                       /\ fileExists' = fileExists]_vars

\* a verifier has raised over a table with an allocated Slot whose manifest
\* would reset it
C34_Witness ==
    /\ returned.method = "verify_list"
    /\ returned.raised = "RandomizationListError"
    /\ fileExists
    /\ \E k \in DOMAIN slots : slots[k].allocated
    /\ \E s \in Subjects : regs[s] # NoReg /\ regs[s].sid # None

\* the step constructs a verifier for a scheme that declares no extra columns
NoExtraColumns == \E maintenance \in BOOLEAN : VerifyListExtra(FALSE, <<>>, maintenance)

\* C35: constructing a verifier for a scheme that declares no extra columns
\* succeeds and uses the column list sid, assignment, site_name; constructing
\* verifiers, with or without extra columns, leaves the class-level default
\* column list unchanged, so columns do not accumulate.
C35_ColumnsDoNotAccumulate ==
    [][/\ NoExtraColumns => /\ returned'.raised # "TypeError"
                            /\ fieldnames' = DefaultCsvFieldnames
       /\ returned'.method = "verify_list"
             => default_csv_fieldnames' = default_csv_fieldnames]_vars

====
